---- MODULE Spec2Model ----
(***************************************************************************)
(* Flask sales dashboard (src/backend/app.py): the upload pipeline         *)
(* (validate_dataframe, detect_currency, standardize_column_names,        *)
(* upload_file), the aggregation behind the charts (generate_charts) and   *)
(* the request handlers around the upload store (register, login, logout,  *)
(* delete_upload, dashboard, export_pdf).                                  *)
(*                                                                         *)
(* Text is modelled by TLA+ strings and taken apart character by           *)
(* character; numbers are integers (the cells of the model hold no         *)
(* fractions); NaN/NaT/None are the cell NaN.                              *)
(***************************************************************************)
EXTENDS Integers, Sequences, FiniteSets, TLC

VARIABLES users, session, store, clock, inbox, resp

vars == <<users, session, store, clock, inbox, resp>>

(***************************************************************************)
(* Text                                                                    *)
(***************************************************************************)

\* Printable ASCII in code order: codes 32 (space) to 95, and codes 97 to 126.
AsciiLow == " !\"#$%&'()*+,-./0123456789:;<=>?@ABCDEFGHIJKLMNOPQRSTUVWXYZ[\\]^_"

AsciiHigh == "abcdefghijklmnopqrstuvwxyz{|}~"

CharAt(s, i) == SubSeq(s, i, i)

\* the code of every character, as an explicit table
RECURSIVE Codes(_, _, _)
Codes(text, i, base) ==
    IF i > Len(text) THEN <<>> ELSE (CharAt(text, i) :> (base + i)) @@ Codes(text, i + 1, base)

OrdTable == Codes(AsciiLow, 1, 31) @@ Codes(AsciiHigh, 1, 96)

\* ord(c)
Ord(c) == OrdTable[c]

\* chr(n)
Chr(n) == IF n <= 95 THEN CharAt(AsciiLow, n - 31) ELSE CharAt(AsciiHigh, n - 96)

\* str.lower() on one character
LowerChar(c) == IF Ord(c) >= Ord("A") /\ Ord(c) <= Ord("Z") THEN Chr(Ord(c) + (Ord("a") - Ord("A"))) ELSE c

RECURSIVE Lower(_)
Lower(s) == IF s = "" THEN "" ELSE LowerChar(Head(s)) \o Lower(Tail(s))

\* str.upper() on one character
UpperChar(c) == IF Ord(c) >= Ord("a") /\ Ord(c) <= Ord("z") THEN Chr(Ord(c) - (Ord("a") - Ord("A"))) ELSE c

RECURSIVE Upper(_)
Upper(s) == IF s = "" THEN "" ELSE UpperChar(Head(s)) \o Upper(Tail(s))

RECURSIVE LStrip(_)
LStrip(s) == IF s # "" /\ Head(s) = " " THEN LStrip(Tail(s)) ELSE s

RECURSIVE RStrip(_)
RStrip(s) == IF s # "" /\ CharAt(s, Len(s)) = " " THEN RStrip(SubSeq(s, 1, Len(s) - 1)) ELSE s

\* str.strip()
Strip(s) == RStrip(LStrip(s))

\* sub in s
Contains(sub, s) == \E i \in 1..(Len(s) - Len(sub) + 1) : SubSeq(s, i, i + Len(sub) - 1) = sub

\* s.endswith(suffix)
EndsWith(s, suffix) == Len(s) >= Len(suffix) /\ SubSeq(s, Len(s) - Len(suffix) + 1, Len(s)) = suffix

\* str.replace(r'[\$,]', '', regex=True) on one cell
RECURSIVE StripMoney(_)
StripMoney(s) ==
    IF s = "" THEN ""
    ELSE IF Head(s) \in {"$", ","} THEN StripMoney(Tail(s))
    ELSE Head(s) \o StripMoney(Tail(s))

IsDigit(c) == Ord(c) >= Ord("0") /\ Ord(c) <= Ord("9")

AllDigits(s) == s # "" /\ \A i \in 1..Len(s) : IsDigit(CharAt(s, i))

RECURSIVE DigitsValue(_)
DigitsValue(s) == IF s = "" THEN 0 ELSE 10 * DigitsValue(SubSeq(s, 1, Len(s) - 1)) + (Ord(CharAt(s, Len(s))) - Ord("0"))

\* Python's comparison of two str values (by code point)
RECURSIVE StrLess(_, _)
StrLess(a, b) ==
    IF b = "" THEN FALSE
    ELSE IF a = "" THEN TRUE
    ELSE IF Head(a) = Head(b) THEN StrLess(Tail(a), Tail(b))
    ELSE Ord(Head(a)) < Ord(Head(b))

RECURSIVE Join(_, _)
Join(parts, sep) ==
    IF parts = <<>> THEN ""
    ELSE IF Len(parts) = 1 THEN parts[1]
    ELSE parts[1] \o sep \o Join(Tail(parts), sep)

(***************************************************************************)
(* Cells                                                                   *)
(***************************************************************************)

Num(n) == [k |-> "num", n |-> n, s |-> ""]
Str(s) == [k |-> "str", n |-> 0, s |-> s]
NaN == [k |-> "nan", n |-> 0, s |-> ""]

IsNull(c) == c.k = "nan"

\* The text of an integer, as the pandas parsers read it: an optional sign and digits.
IsNumberText(s) == IF s # "" /\ Head(s) = "-" THEN AllDigits(Tail(s)) ELSE AllDigits(s)

NumberValue(s) == IF Head(s) = "-" THEN 0 - DigitsValue(Tail(s)) ELSE DigitsValue(s)

\* str(x) of a number cell (astype(str))
Digit(n) == CharAt("0123456789", n + 1)

RECURSIVE NatText(_)
NatText(n) == IF n < 10 THEN Digit(n) ELSE NatText(n \div 10) \o Digit(n % 10)

IntText(n) == IF n < 0 THEN "-" \o NatText(0 - n) ELSE NatText(n)

(***************************************************************************)
(* Calendar dates                                                          *)
(***************************************************************************)

IsLeap(y) == (y % 4 = 0 /\ y % 100 # 0) \/ y % 400 = 0

DaysIn(y, m) == IF m = 2 THEN (IF IsLeap(y) THEN 29 ELSE 28) ELSE IF m \in {4, 6, 9, 11} THEN 30 ELSE 31

\* The text of an ISO date, YYYY-MM-DD with a real calendar day; the date texts of
\* the model are of this form or are no dates at all.
IsDateText(s) ==
    /\ Len(s) = 10
    /\ CharAt(s, 5) = "-" /\ CharAt(s, 8) = "-"
    /\ AllDigits(SubSeq(s, 1, 4)) /\ AllDigits(SubSeq(s, 6, 7)) /\ AllDigits(SubSeq(s, 9, 10))
    /\ LET y == DigitsValue(SubSeq(s, 1, 4))
           m == DigitsValue(SubSeq(s, 6, 7))
           d == DigitsValue(SubSeq(s, 9, 10))
       IN  m >= 1 /\ m <= 12 /\ d >= 1 /\ d <= DaysIn(y, m)

DateValue(s) == [y |-> DigitsValue(SubSeq(s, 1, 4)), m |-> DigitsValue(SubSeq(s, 6, 7)), d |-> DigitsValue(SubSeq(s, 9, 10))]

NaT == [y |-> 0, m |-> 0, d |-> 0]

Epoch == [y |-> 1970, m |-> 1, d |-> 1]

Pad(n, width) == IF width = 4 /\ n < 1000 THEN (IF n < 10 THEN "000" ELSE IF n < 100 THEN "00" ELSE "0") \o NatText(n)
                 ELSE IF width = 2 /\ n < 10 THEN "0" \o NatText(n)
                 ELSE NatText(n)

\* Timestamp.strftime('%Y-%m-%d')
strftime(t) == Pad(t.y, 4) \o "-" \o Pad(t.m, 2) \o "-" \o Pad(t.d, 2)

\* Timestamp.day_name(): 0 is Sunday
DayIndex(t) ==
    LET off == <<0, 3, 2, 5, 0, 3, 5, 1, 4, 6, 2, 4>>
        y == IF t.m < 3 THEN t.y - 1 ELSE t.y
    IN  (y + (y \div 4) - (y \div 100) + (y \div 400) + off[t.m] + t.d) % 7

day_name(t) == <<"Sunday", "Monday", "Tuesday", "Wednesday", "Thursday", "Friday", "Saturday">>[DayIndex(t) + 1]

(***************************************************************************)
(* Tables: an uploaded file and the DataFrame read from it.                *)
(* A file is [present, filename, corrupt, cols, rows]: the raw header      *)
(* texts and, row by row, the raw cell texts.  A DataFrame is              *)
(* [cols, n, data]: the column labels, the number of rows and, column by   *)
(* column, the cells.                                                      *)
(***************************************************************************)

\* The cell texts the pandas readers take for missing values (default na_values).
NaStrings == {"", "#N/A", "N/A", "NA", "NULL", "NaN", "None", "n/a", "nan", "null", "<NA>"}

Column(file, j) == [i \in 1..Len(file.rows) |-> file.rows[i][j]]

\* The readers' type inference on one column: numbers when every present cell is
\* a number, text otherwise; a missing cell is NaN either way.
InferColumn(texts) ==
    LET numeric == \A i \in 1..Len(texts) : texts[i] \in NaStrings \/ IsNumberText(texts[i])
    IN  [i \in 1..Len(texts) |->
            IF texts[i] \in NaStrings THEN NaN
            ELSE IF numeric THEN Num(NumberValue(texts[i]))
            ELSE Str(texts[i])]

\* pd.read_csv(file) / pd.read_excel(file)
read_table(file) ==
    [cols |-> file.cols,
     n |-> Len(file.rows),
     data |-> [j \in 1..Len(file.cols) |-> InferColumn(Column(file, j))]]

\* df.columns.str.strip()
StripColumns(df) == [df EXCEPT !.cols = [j \in 1..Len(df.cols) |-> Strip(df.cols[j])]]

Positions(df, name) == {j \in 1..Len(df.cols) : df.cols[j] = name}

HasColumn(df, name) == Positions(df, name) # {}

\* df[name] is one column only when the label is unique; with a repeated label it is
\* a DataFrame, on which the column operations of the handler raise.
IsSeries(df, name) == Cardinality(Positions(df, name)) = 1

Series(df, name) == df.data[CHOOSE j \in Positions(df, name) : TRUE]

\* df[name] = column: every column with the label is set, or a new last column added
SetColumn(df, name, column) ==
    IF HasColumn(df, name)
    THEN [df EXCEPT !.data = [j \in 1..Len(df.cols) |-> IF df.cols[j] = name THEN column ELSE df.data[j]]]
    ELSE [df EXCEPT !.cols = Append(df.cols, name), !.data = Append(df.data, column)]

\* next((c for c in df.columns if sub in c), None); "" is None
FirstContaining(df, sub) ==
    LET hits == {j \in 1..Len(df.cols) : Contains(sub, df.cols[j])}
    IN  IF hits = {} THEN "" ELSE df.cols[CHOOSE j \in hits : \A k \in hits : j <= k]

\* pd.to_datetime(column): NaN is NaT, an integer is nanoseconds from the epoch,
\* a text is parsed; a text that is no date raises.
DatetimeRaises(column) == \E i \in 1..Len(column) : column[i].k = "str" /\ ~IsDateText(column[i].s)

to_datetime(column) ==
    [i \in 1..Len(column) |->
        IF column[i].k = "nan" THEN NaT
        ELSE IF column[i].k = "num" THEN (IF column[i].n >= 0 THEN Epoch ELSE [y |-> 1969, m |-> 12, d |-> 31])
        ELSE DateValue(column[i].s)]

\* pd.to_numeric(column, errors='raise') raises on a text that is no number
NumericRaises(column) == \E i \in 1..Len(column) : column[i].k = "str" /\ ~IsNumberText(column[i].s)

NumericText(s) == IF IsNumberText(s) THEN Num(NumberValue(s)) ELSE NaN

\* pd.to_numeric(column, errors='coerce')
to_numeric(column) ==
    [i \in 1..Len(column) |-> IF column[i].k = "str" THEN NumericText(column[i].s) ELSE column[i]]

\* column.fillna(0)
fillna0(column) == [i \in 1..Len(column) |-> IF IsNull(column[i]) THEN Num(0) ELSE column[i]]

\* column.astype(str)
astype_str(column) ==
    [i \in 1..Len(column) |->
        IF column[i].k = "num" THEN IntText(column[i].n)
        ELSE IF column[i].k = "nan" THEN "nan"
        ELSE column[i].s]

\* pd.to_numeric(column.astype(str).str.replace(r'[\$,]', '', regex=True), errors='coerce').fillna(0)
ParseMoney(column) ==
    LET texts == astype_str(column)
    IN  fillna0([i \in 1..Len(column) |-> NumericText(StripMoney(texts[i]))])

RECURSIVE SumCells(_)
SumCells(column) == IF column = <<>> THEN 0 ELSE (IF IsNull(Head(column)) THEN 0 ELSE Head(column).n) + SumCells(Tail(column))

(***************************************************************************)
(* Header normalisation, validation, currency                              *)
(***************************************************************************)

mapping ==
    [h \in {"price (ksh)", "price(ksh)", "price (usd)", "price(usd)",
            "total (ksh)", "total(ksh)", "total (usd)", "total(usd)",
            "product", "item", "description", "name",
            "quantity", "qty", "units",
            "date", "sale date", "transaction date", "order date"} |->
        IF h \in {"price (ksh)", "price(ksh)", "price (usd)", "price(usd)"} THEN "price"
        ELSE IF h \in {"total (ksh)", "total(ksh)", "total (usd)", "total(usd)"} THEN "total"
        ELSE IF h \in {"product", "item", "description", "name"} THEN "product"
        ELSE IF h \in {"quantity", "qty", "units"} THEN "quantity"
        ELSE "date"]

StandardName(x) == IF Lower(x) \in DOMAIN mapping THEN mapping[Lower(x)] ELSE Lower(x)

standardize_column_names(df) ==
    [df EXCEPT !.cols = [j \in 1..Len(df.cols) |-> StandardName(Strip(df.cols[j]))]]

required == <<"date", "product", "quantity">>

possible_names ==
    [std \in {"date", "product", "quantity"} |->
        IF std = "date" THEN {"date", "sale date", "transaction date", "order date"}
        ELSE IF std = "product" THEN {"product", "item", "description", "name"}
        ELSE {"quantity", "qty", "units"}]

\* found: for each required field, the first column whose lower-cased label is one
\* of its names; "" when there is none
Found(df, std) ==
    LET hits == {j \in 1..Len(df.cols) : Lower(df.cols[j]) \in possible_names[std]}
    IN  IF hits = {} THEN "" ELSE df.cols[CHOOSE j \in hits : \A k \in hits : j <= k]

Missing(df) == SelectSeq(required, LAMBDA k : Found(df, k) = "")

has_price_or_total(df) ==
    \E j \in 1..Len(df.cols) : Contains("price", Lower(df.cols[j])) \/ Contains("total", Lower(df.cols[j]))

\* The try block of validate_dataframe raises
ParseCheckRaises(df) ==
    \/ ~IsSeries(df, Found(df, "date"))
    \/ DatetimeRaises(Series(df, Found(df, "date")))
    \/ ~IsSeries(df, Found(df, "quantity"))
    \/ NumericRaises(Series(df, Found(df, "quantity")))

\* A variant of validate_dataframe that looks for a price or total column first.
validate_price_first(df0) ==
    LET df == StripColumns(df0)
    IN  IF ~has_price_or_total(df)
        THEN [ok |-> FALSE, msg |-> "Missing price or total column"]
        ELSE IF Missing(df) # <<>>
        THEN [ok |-> FALSE, msg |-> "Missing required columns: " \o Join(Missing(df), ", ")]
        ELSE IF ParseCheckRaises(df)
        THEN [ok |-> FALSE, msg |-> "Invalid date or quantity format"]
        ELSE [ok |-> TRUE, msg |-> ""]

validate_dataframe(df0) ==
    LET df == StripColumns(df0)
    IN  IF Missing(df) # <<>>
        THEN [ok |-> FALSE, msg |-> "Missing required columns: " \o Join(Missing(df), ", ")]
        ELSE IF ~has_price_or_total(df)
        THEN [ok |-> FALSE, msg |-> "Missing price or total column"]
        ELSE IF ParseCheckRaises(df)
        THEN [ok |-> FALSE, msg |-> "Invalid date or quantity format"]
        ELSE [ok |-> TRUE, msg |-> ""]

\* A variant of detect_currency that reads the normalized headers.
detect_currency_normalized(df) ==
    IF \E j \in 1..Len(df.cols) : Contains("ksh", standardize_column_names(df).cols[j]) THEN "KSH" ELSE "USD"

detect_currency(df) ==
    IF \E j \in 1..Len(df.cols) : Contains("ksh", Lower(df.cols[j])) THEN "KSH" ELSE "USD"

get_currency_symbol(currency_code) ==
    LET table == [c \in {"USD", "KSH", "Ksh"} |-> IF c = "USD" THEN "$" ELSE "KSh"]
    IN  IF Upper(currency_code) \in DOMAIN table THEN table[Upper(currency_code)] ELSE currency_code

(***************************************************************************)
(* upload_file: the outcome of one upload request.  An outcome is          *)
(* [status, msg, commit, currency, data]: the HTTP status, the message or  *)
(* error of the JSON body, whether db.session.commit() ran, and what was   *)
(* committed.                                                              *)
(***************************************************************************)

UPLOAD_EXTENSIONS == {".xlsx", ".csv"}

Refused(status, msg) == [status |-> status, msg |-> msg, commit |-> FALSE, currency |-> "", data |-> <<>>]

\* the except branch of upload_file, before the commit
ProcessingFailed == Refused(500, "Processing failed")

\* df['quantity'] = pd.to_numeric(df['quantity'], errors='coerce').fillna(0)
CoerceQuantity(df) == SetColumn(df, "quantity", fillna0(to_numeric(Series(df, "quantity"))))

\* if price_col: df['price'] = ...
CoercePrice(df, price_col) ==
    IF price_col = "" THEN df ELSE SetColumn(df, "price", ParseMoney(Series(df, price_col)))

\* if total_col: df['total'] = ...
CoerceTotal(df, src, total_col) ==
    IF total_col = "" THEN df ELSE SetColumn(df, "total", ParseMoney(Series(src, total_col)))

\* A variant of the test below: recompute only when there is no total column.
NeedsRecomputeOnlyWithoutTotal(df) == ~HasColumn(df, "total")

\* 'total' not in df.columns or df['total'].sum() == 0
NeedsRecompute(df) == ~HasColumn(df, "total") \/ SumCells(Series(df, "total")) = 0

\* df.get('price', 0), row by row
PriceOrZero(df) == IF HasColumn(df, "price") THEN Series(df, "price") ELSE [i \in 1..df.n |-> Num(0)]

\* df['total'] = df['quantity'] * df.get('price', 0)
Recompute(df) ==
    SetColumn(df, "total", [i \in 1..df.n |-> Num(Series(df, "quantity")[i].n * PriceOrZero(df)[i].n)])

\* pd.to_datetime(df['date']).dt.strftime('%Y-%m-%d'): NaT formats to NaN
FormatDates(df) ==
    LET t == to_datetime(Series(df, "date"))
    IN  SetColumn(df, "date", [i \in 1..df.n |-> IF t[i] = NaT THEN NaN ELSE Str(strftime(t[i]))])

\* df.to_dict(orient='records'): with a repeated label the last column wins
to_dict(df) ==
    [i \in 1..df.n |->
        [c \in {df.cols[j] : j \in 1..Len(df.cols)} |->
            df.data[CHOOSE j \in Positions(df, c) : \A k \in Positions(df, c) : k <= j][i]]]

\* Building the JSON body after the commit raises: int(df['product'].nunique()) on a
\* repeated label, or df['date'].min() over texts mixed with NaN.
StatsRaise(df) ==
    \/ ~IsSeries(df, "product")
    \/ LET d == Series(df, "date")
       IN  (\E i \in 1..df.n : IsNull(d[i])) /\ (\E i \in 1..df.n : ~IsNull(d[i]))

\* lines 392-413: the commit, then the JSON body built from the same frame
Persist(df, currency) ==
    [status |-> IF StatsRaise(df) THEN 500 ELSE 200,
     msg |-> IF StatsRaise(df) THEN "Processing failed" ELSE "File uploaded successfully",
     commit |-> TRUE,
     currency |-> currency,
     data |-> to_dict(df)]

\* line 390
CoerceDate(df, currency) ==
    IF ~IsSeries(df, "date") \/ DatetimeRaises(Series(df, "date")) THEN ProcessingFailed
    ELSE Persist(FormatDates(df), currency)

\* lines 387-388
RecomputeTotal(df, currency) ==
    IF HasColumn(df, "total") /\ ~IsSeries(df, "total") THEN ProcessingFailed
    ELSE IF NeedsRecompute(df) /\ HasColumn(df, "price") /\ ~IsSeries(df, "price") THEN ProcessingFailed
    ELSE CoerceDate(IF NeedsRecompute(df) THEN Recompute(df) ELSE df, currency)

\* lines 384-385; the total column is looked up after the price column was written
CoerceTotalColumn(df, total_col, currency) ==
    IF total_col # "" /\ ~IsSeries(df, total_col) THEN ProcessingFailed
    ELSE RecomputeTotal(CoerceTotal(df, df, total_col), currency)

\* lines 379-383
CoerceMoney(df, price_col, total_col, currency) ==
    IF price_col # "" /\ ~IsSeries(df, price_col) THEN ProcessingFailed
    ELSE CoerceTotalColumn(CoercePrice(df, price_col), total_col, currency)

\* lines 378-380
CoerceColumns(df, currency) ==
    CoerceMoney(df, FirstContaining(df, "price"), FirstContaining(df, "total"), currency)

\* lines 378-413, on the DataFrame with standard column names
Coerce(df, currency) ==
    IF ~IsSeries(df, "quantity") THEN ProcessingFailed
    ELSE CoerceColumns(CoerceQuantity(df), currency)

\* lines 372-376
Standardize(df, currency, std) ==
    IF ~\A i \in 1..Len(required) : HasColumn(std, required[i]) THEN Refused(400, "Column mapping failed")
    ELSE Coerce(std, currency)

\* lines 368-376
Validate(df, v) ==
    IF ~v.ok THEN Refused(400, v.msg)
    ELSE Standardize(df, detect_currency(df), standardize_column_names(df))

\* lines 366-376
Process(df) == Validate(df, validate_dataframe(df))

\* lines 353-366 and then Process
Outcome(file) ==
    IF ~file.present \/ file.filename = "" THEN Refused(400, "No file selected")
    ELSE IF ~\E ext \in UPLOAD_EXTENSIONS : EndsWith(Lower(file.filename), ext) THEN Refused(400, "Invalid file type")
    ELSE IF file.corrupt THEN ProcessingFailed
    ELSE Process(StripColumns(read_table(file)))

(***************************************************************************)
(* generate_charts: the five series behind the charts.  A chart of the     *)
(* code is the PNG of a series; the model keeps the series, a sequence of  *)
(* [key, value] in plotting order.  The data is the stored list of row     *)
(* records.                                                                *)
(***************************************************************************)

TopN == 8

order == <<"Monday", "Tuesday", "Wednesday", "Thursday", "Friday", "Saturday", "Sunday">>

\* return {} of the except branch
NoCharts == [c \in {} |-> <<>>]

ChartNames == {"sales_by_product", "sales_trend", "revenue_distribution", "top_products_qty", "weekday_sales"}

\* the order of two group keys of one column: numbers by value, texts as str
KeyLess(a, b) == IF a.k = "num" /\ b.k = "num" THEN a.n < b.n ELSE StrLess(a.s, b.s)

\* the keys of a groupby, sorted (sort=True), NaN keys dropped (dropna=True)
RECURSIVE SortedKeys(_)
SortedKeys(S) ==
    IF S = {} THEN <<>>
    ELSE LET least == CHOOSE k \in S : \A o \in S \ {k} : KeyLess(k, o)
         IN  <<least>> \o SortedKeys(S \ {least})

RemoveAt(seq, i) == SubSeq(seq, 1, i - 1) \o SubSeq(seq, i + 1, Len(seq))

\* Series.sort_values(ascending=True)
RECURSIVE sort_values(_)
sort_values(seq) ==
    IF seq = <<>> THEN <<>>
    ELSE LET i == CHOOSE i \in 1..Len(seq) :
                    /\ \A j \in 1..Len(seq) : seq[i].value <= seq[j].value
                    /\ \A j \in 1..(i - 1) : seq[j].value # seq[i].value
         IN  <<seq[i]>> \o sort_values(RemoveAt(seq, i))

\* A variant of nlargest: of equal values the one later in the series comes first
\* (keep='last').
RECURSIVE nlargest_keep_last(_, _)
nlargest_keep_last(seq, n) ==
    IF seq = <<>> \/ n = 0 THEN <<>>
    ELSE LET i == CHOOSE i \in 1..Len(seq) :
                    /\ \A j \in 1..Len(seq) : seq[i].value >= seq[j].value
                    /\ \A j \in (i + 1)..Len(seq) : seq[j].value # seq[i].value
         IN  <<seq[i]>> \o nlargest_keep_last(RemoveAt(seq, i), n - 1)

\* Series.nlargest(n): the n largest values, largest first; of equal values the one
\* earlier in the series comes first (keep='first')
RECURSIVE nlargest(_, _)
nlargest(seq, n) ==
    IF seq = <<>> \/ n = 0 THEN <<>>
    ELSE LET i == CHOOSE i \in 1..Len(seq) :
                    /\ \A j \in 1..Len(seq) : seq[i].value >= seq[j].value
                    /\ \A j \in 1..(i - 1) : seq[j].value # seq[i].value
         IN  <<seq[i]>> \o nlargest(RemoveAt(seq, i), n - 1)

\* the frame of generate_charts after lines 134-144: one record per stored row
ChartRow(row) ==
    LET quantity == IF row.quantity.k = "num" THEN row.quantity.n ELSE 0
        price == IF row.price.k = "num" THEN row.price.n ELSE 0
    IN  [date |-> IF row.date.k = "str" THEN DateValue(row.date.s) ELSE NaT,
         product |-> row.product,
         quantity |-> quantity,
         price |-> price,
         total |-> row.total]

ChartFrame(data) ==
    LET rows == [i \in 1..Len(data) |-> ChartRow(data[i])]
        \* df['total'].isnull().all() or (df['total'] == 0).all()
        recompute == \/ \A i \in 1..Len(rows) : rows[i].total.k # "num"
                     \/ \A i \in 1..Len(rows) : rows[i].total.k = "num" /\ rows[i].total.n = 0
    IN  [i \in 1..Len(rows) |->
            [rows[i] EXCEPT !.total = IF recompute THEN rows[i].quantity * rows[i].price
                                      ELSE IF rows[i].total.k = "num" THEN rows[i].total.n ELSE 0]]

RECURSIVE SumSeq(_)
SumSeq(seq) == IF seq = <<>> THEN 0 ELSE Head(seq) + SumSeq(Tail(seq))

\* the sum of a column over the rows of one group
SumWhere(frame, field, rows) ==
    SumSeq([i \in 1..Len(frame) |-> IF i \in rows THEN frame[i][field] ELSE 0])

\* df.groupby('product')[field].sum()
GroupByProduct(frame, field) ==
    LET keys == SortedKeys({frame[i].product : i \in {i \in 1..Len(frame) : ~IsNull(frame[i].product)}})
    IN  [g \in 1..Len(keys) |->
            [key |-> keys[g], value |-> SumWhere(frame, field, {i \in 1..Len(frame) : frame[i].product = keys[g]})]]

Month(t) == [y |-> t.y, m |-> t.m]

RECURSIVE SortedMonths(_)
SortedMonths(S) ==
    IF S = {} THEN <<>>
    ELSE LET least == CHOOSE p \in S : \A o \in S : p.y * 12 + p.m <= o.y * 12 + o.m
         IN  <<least>> \o SortedMonths(S \ {least})

\* df.groupby(df['date'].dt.to_period('M'))['total'].sum(): rows without a date are dropped
GroupByMonth(frame) ==
    LET keys == SortedMonths({Month(frame[i].date) : i \in {i \in 1..Len(frame) : frame[i].date # NaT}})
    IN  [g \in 1..Len(keys) |->
            [key |-> keys[g],
             value |-> SumWhere(frame, "total", {i \in 1..Len(frame) : frame[i].date # NaT /\ Month(frame[i].date) = keys[g]})]]

\* df.groupby('day_of_week')['total'].sum().reindex(order, fill_value=0)
GroupByWeekday(frame) ==
    [g \in 1..Len(order) |->
        [key |-> order[g],
         value |-> SumWhere(frame, "total", {i \in 1..Len(frame) : frame[i].date # NaT /\ day_name(frame[i].date) = order[g]})]]

\* Series.plot(kind='pie') refuses negative values
PieRaises(series) == \E g \in 1..Len(series) : series[g].value < 0

\* Plots of series with nothing to draw: a bar or line plot of no groups, a pie of
\* zeros.  Whether the plotting library draws or raises there differs between its
\* versions; the caller chooses.
NothingToDraw(sales_by_product, monthly_sales) ==
    \/ sales_by_product = <<>>
    \/ monthly_sales = <<>>
    \/ \A g \in 1..Len(sales_by_product) : sales_by_product[g].value = 0

\* lines 163-215, the five charts in the order the code draws them
Draw(frame, sales_by_product, monthly_sales, draws) ==
    IF PieRaises(sales_by_product) THEN NoCharts
    ELSE IF NothingToDraw(sales_by_product, monthly_sales) /\ ~draws THEN NoCharts
    ELSE [sales_by_product |-> sort_values(sales_by_product),
          sales_trend |-> monthly_sales,
          revenue_distribution |-> sales_by_product,
          top_products_qty |-> nlargest(GroupByProduct(frame, "quantity"), TopN),
          weekday_sales |-> GroupByWeekday(frame)]

Charts(frame, draws) == Draw(frame, GroupByProduct(frame, "total"), GroupByMonth(frame), draws)

generate_charts(data, currency, draws) ==
    IF data = <<>> \/ "price" \notin DOMAIN data[1] THEN NoCharts      \* KeyError
    ELSE Charts(ChartFrame(data), draws)

NoFile == [present |-> FALSE, filename |-> "", corrupt |-> FALSE, cols |-> <<>>, rows |-> <<>>]

File(filename, cols, rows) == [present |-> TRUE, filename |-> filename, corrupt |-> FALSE, cols |-> cols, rows |-> rows]

\* The files the clients of Spec upload.
AppFiles ==
    { NoFile,
      File("notes.txt", <<"Date", "Item", "Qty", "Price">>, << <<"2024-01-05", "Widget", "3", "10">> >>),
      [File("broken.csv", <<>>, <<>>) EXCEPT !.corrupt = TRUE],
      File("q1.csv", <<"Date", "Item", "Qty", "Price (KSH)">>, << <<"2024-01-05", "Widget", "3", "10">> >>),
      File("Q2.XLSX", <<"Date", "Product">>, << <<"2024-01-05", "Widget">> >>),
      File("twice.csv", <<"Date", "Product", "Item", "Qty", "Price">>, << <<"2024-01-05", "Widget", "W-1", "3", "10">> >>) }

\* Outcome and generate_charts, tabulated once over the files of the application
\* run; any other file is computed on the spot.
OutcomeTable == [f \in AppFiles |-> Outcome(f)] @@ <<>>

OutcomeOf(file) == IF file \in DOMAIN OutcomeTable THEN OutcomeTable[file] ELSE Outcome(file)

ChartsTable ==
    [k \in {<<o.data, o.currency, d>> : o \in {o \in {OutcomeTable[f] : f \in AppFiles} : o.commit}, d \in BOOLEAN} |->
        generate_charts(k[1], k[2], k[3])] @@ <<>>

ChartsOf(data, currency, draws) ==
    IF <<data, currency, draws>> \in DOMAIN ChartsTable THEN ChartsTable[<<data, currency, draws>>]
    ELSE generate_charts(data, currency, draws)

(***************************************************************************)
(* The application state and the request handlers.                         *)
(*   users    the user table, in id order: [id, username, password_hash]   *)
(*   session  per client, the signed session cookie: [user_id, username],  *)
(*            user_id 0 when the cookie holds no 'user_id'                 *)
(*   store    the user_upload table: a set of                              *)
(*            [id, user_id, filename, upload_date, data, currency]         *)
(*   clock    the time of the last commit (upload_date = utcnow)           *)
(*   inbox    the file a client is about to upload (ingestion runs)        *)
(*   resp     the last response                                            *)
(* Flashed messages are not modelled.                                      *)
(***************************************************************************)

MaxUploads == 2

Clients == {"c1", "c2"}

Usernames == {"alice", "bob"}

\* the passwords users register with, and the passwords typed at login
RegisterPasswords == {"pw1"}

Passwords == {"pw1", "pw2"}

NoSession == [user_id |-> 0, username |-> ""]

\* generate_password_hash / check_password_hash
generate_password_hash(password) == <<"hash", password>>

check_password(user, password) == user.password_hash = generate_password_hash(password)

\* User.query.filter_by(username=username).first(); the id, 0 for None
UserNamed(username) ==
    IF \E i \in 1..Len(users) : users[i].username = username
    THEN CHOOSE i \in 1..Len(users) : users[i].username = username
    ELSE 0

Response(op, c, status, msg) ==
    [op |-> op, client |-> c, status |-> status, msg |-> msg,
     upload_id |-> 0, selected |-> 0, charts |-> NoCharts, uploads |-> <<>>]

\* the next INTEGER PRIMARY KEY of the table
NextId == IF store = {} THEN 1 ELSE 1 + (CHOOSE n \in {u.id : u \in store} : \A u \in store : u.id <= n)

\* UserUpload.query.filter_by(user_id=...).order_by(UserUpload.upload_date.desc()).all()
RECURSIVE LatestFirst(_)
LatestFirst(S) ==
    IF S = {} THEN <<>>
    ELSE LET latest == CHOOSE u \in S : \A o \in S : o.upload_date <= u.upload_date
         IN  <<latest>> \o LatestFirst(S \ {latest})

UploadsOf(user_id) == LatestFirst({u \in store : u.user_id = user_id})

UploadWithId(upload_id) == CHOOSE u \in store : u.id = upload_id

register(c, username, password) ==
    /\ IF UserNamed(username) # 0
       THEN /\ users' = users
            /\ resp' = Response("register", c, 302, "Username already exists")
       ELSE /\ users' = Append(users, [id |-> Len(users) + 1, username |-> username,
                                       password_hash |-> generate_password_hash(password)])
            /\ resp' = Response("register", c, 302, "Registration successful! Please login.")
    /\ UNCHANGED <<session, store, clock, inbox>>

login(c, username, password) ==
    /\ IF UserNamed(username) # 0 /\ check_password(users[UserNamed(username)], password)
       THEN /\ session' = [session EXCEPT ![c] = [user_id |-> users[UserNamed(username)].id, username |-> username]]
            /\ resp' = Response("login", c, 302, "Logged in successfully!")
       ELSE /\ session' = session
            /\ resp' = Response("login", c, 200, "Invalid username or password")
    /\ UNCHANGED <<users, store, clock, inbox>>

logout(c) ==
    /\ session' = [session EXCEPT ![c] = NoSession]
    /\ resp' = Response("logout", c, 302, "You have been logged out.")
    /\ UNCHANGED <<users, store, clock, inbox>>

home(c) ==
    /\ resp' = Response("home", c, 200, "")
    /\ UNCHANGED <<users, session, store, clock, inbox>>

upload_file(c, file) ==
    /\ clock < MaxUploads
    /\ \E o \in {IF session[c].user_id = 0 THEN Refused(401, "Unauthorized") ELSE OutcomeOf(file)} :
           /\ store' = IF o.commit
                       THEN store \cup {[id |-> NextId, user_id |-> session[c].user_id, filename |-> file.filename,
                                         upload_date |-> clock + 1, data |-> o.data, currency |-> o.currency]}
                       ELSE store
           /\ clock' = IF o.commit THEN clock + 1 ELSE clock
           /\ resp' = [Response("upload", c, o.status, o.msg) EXCEPT !.upload_id = IF o.commit THEN NextId ELSE 0]
    /\ UNCHANGED <<users, session, inbox>>

\* A variant of delete_upload without the ownership test.
delete_upload_unowned(c, upload_id) ==
    /\ IF session[c].user_id = 0
       THEN store' = store /\ resp' = [Response("delete_upload", c, 401, "Unauthorized") EXCEPT !.upload_id = upload_id]
       ELSE IF ~\E u \in store : u.id = upload_id
       THEN store' = store /\ resp' = [Response("delete_upload", c, 404, "") EXCEPT !.upload_id = upload_id]
       ELSE /\ store' = store \ {UploadWithId(upload_id)}
            /\ resp' = [Response("delete_upload", c, 200, "Upload deleted successfully") EXCEPT !.upload_id = upload_id]
    /\ UNCHANGED <<users, session, clock, inbox>>

delete_upload(c, upload_id) ==
    /\ IF session[c].user_id = 0
       THEN store' = store /\ resp' = [Response("delete_upload", c, 401, "Unauthorized") EXCEPT !.upload_id = upload_id]
       ELSE IF ~\E u \in store : u.id = upload_id
       THEN store' = store /\ resp' = [Response("delete_upload", c, 404, "") EXCEPT !.upload_id = upload_id]
       ELSE IF UploadWithId(upload_id).user_id # session[c].user_id
       THEN store' = store /\ resp' = [Response("delete_upload", c, 403, "Forbidden") EXCEPT !.upload_id = upload_id]
       ELSE /\ store' = store \ {UploadWithId(upload_id)}
            /\ resp' = [Response("delete_upload", c, 200, "Upload deleted successfully") EXCEPT !.upload_id = upload_id]
    /\ UNCHANGED <<users, session, clock, inbox>>

\* temp_df['total'].sum() and len(temp_df) of the history list; 0 and 0 when that raises
HistoryEntry(up, selected_id) ==
    [id |-> up.id, filename |-> up.filename, upload_date |-> up.upload_date,
     total_revenue |-> IF up.data = <<>> THEN 0 ELSE SumCells([i \in 1..Len(up.data) |-> up.data[i].total]),
     records |-> Len(up.data),
     currency |-> up.currency, symbol |-> get_currency_symbol(up.currency),
     is_active |-> up.id = selected_id]

\* A variant of dashboard that shows the upload asked for, whoever owns it.
dashboard_any_owner(c, upload_id, draws) ==
    /\ IF session[c].user_id = 0
       THEN resp' = [Response("dashboard", c, 302, "") EXCEPT !.upload_id = upload_id]
       ELSE
       LET user_uploads == UploadsOf(session[c].user_id)
       IN  IF user_uploads = <<>>
           THEN resp' = [Response("dashboard", c, 200, "") EXCEPT !.upload_id = upload_id]
           ELSE IF upload_id # 0 /\ ~\E u \in store : u.id = upload_id
           THEN resp' = [Response("dashboard", c, 404, "") EXCEPT !.upload_id = upload_id]
           ELSE
           LET selected_upload == IF upload_id # 0 THEN UploadWithId(upload_id) ELSE user_uploads[1]
           IN  resp' = [Response("dashboard", c, 200, "")
                           EXCEPT !.upload_id = upload_id,
                                  !.selected = selected_upload.id,
                                  !.charts = ChartsOf(selected_upload.data, selected_upload.currency, draws),
                                  !.uploads = [i \in 1..Len(user_uploads) |-> HistoryEntry(user_uploads[i], selected_upload.id)]]
    /\ UNCHANGED <<users, session, store, clock, inbox>>

\* upload_id 0 is the route without an id
dashboard(c, upload_id, draws) ==
    /\ IF session[c].user_id = 0
       THEN resp' = [Response("dashboard", c, 302, "") EXCEPT !.upload_id = upload_id]
       ELSE
       LET user_uploads == UploadsOf(session[c].user_id)
       IN  IF user_uploads = <<>>
           THEN resp' = [Response("dashboard", c, 200, "") EXCEPT !.upload_id = upload_id]
           ELSE IF upload_id # 0 /\ ~\E u \in store : u.id = upload_id
           THEN resp' = [Response("dashboard", c, 404, "") EXCEPT !.upload_id = upload_id]
           ELSE
           LET foreign == upload_id # 0 /\ UploadWithId(upload_id).user_id # session[c].user_id
               selected_upload == IF upload_id # 0 /\ ~foreign THEN UploadWithId(upload_id) ELSE user_uploads[1]
           IN  resp' = [Response("dashboard", c, 200,
                                 IF foreign THEN "You do not have permission to view this upload." ELSE "")
                           EXCEPT !.upload_id = upload_id,
                                  !.selected = selected_upload.id,
                                  !.charts = ChartsOf(selected_upload.data, selected_upload.currency, draws),
                                  !.uploads = [i \in 1..Len(user_uploads) |-> HistoryEntry(user_uploads[i], selected_upload.id)]]
    /\ UNCHANGED <<users, session, store, clock, inbox>>

export_pdf(c, draws) ==
    /\ IF session[c].user_id = 0
       THEN resp' = Response("export_pdf", c, 302, "")
       ELSE
       LET user_uploads == UploadsOf(session[c].user_id)
       IN  IF user_uploads = <<>>
           THEN resp' = Response("export_pdf", c, 302, "No data to export")
           ELSE IF user_uploads[1].data = <<>>
           THEN resp' = [Response("export_pdf", c, 500, "") EXCEPT !.selected = user_uploads[1].id]    \* df['total'] raises
           ELSE resp' = [Response("export_pdf", c, 200, "") EXCEPT
                            !.selected = user_uploads[1].id,
                            !.charts = ChartsOf(user_uploads[1].data, user_uploads[1].currency, draws)]
    /\ UNCHANGED <<users, session, store, clock, inbox>>

(***************************************************************************)
(* The application: any clients, any requests.                             *)
(***************************************************************************)

Init ==
    /\ users = <<>>
    /\ session = [c \in Clients |-> NoSession]
    /\ store = {}
    /\ clock = 0
    /\ inbox = NoFile
    /\ resp = Response("init", "", 0, "")

Next ==
    \/ \E c \in Clients, username \in Usernames, password \in RegisterPasswords : register(c, username, password)
    \/ \E c \in Clients, username \in Usernames, password \in Passwords : login(c, username, password)
    \/ \E c \in Clients : logout(c)
    \/ \E c \in Clients : home(c)
    \/ \E c \in Clients, file \in AppFiles : upload_file(c, file)
    \/ \E c \in Clients, upload_id \in 1..MaxUploads : delete_upload(c, upload_id)
    \/ \E c \in Clients, upload_id \in 0..MaxUploads, draws \in BOOLEAN : dashboard(c, upload_id, draws)
    \/ \E c \in Clients, draws \in BOOLEAN : export_pdf(c, draws)

Spec == Init /\ [][Next]_vars

(***************************************************************************)
(* Ingestion runs: one signed-in client uploads one file to an empty       *)
(* store and reads it back.  The file is drawn from IngestFiles:           *)
(*   HeaderFiles  any choice of up to MaxCols headers of Vocabulary, one   *)
(*                row, with a cell that is no date or no number on demand  *)
(*   MoneyFiles   up to MaxRows rows of quantity, price and total texts    *)
(*   GroupFiles   up to MaxRows rows of dates and products, blanks too     *)
(*   WideFiles    one row for each of nine products                        *)
(***************************************************************************)

MaxCols == 5

MaxRows == 2

MaxHeavy == 2

Vocabulary ==
    << [h |-> " Date ", kind |-> "date", cell |-> "2024-01-05"],
       [h |-> "Sale Date", kind |-> "date", cell |-> "2024-02-10"],
       [h |-> "Item", kind |-> "product", cell |-> "Widget"],
       [h |-> "PRODUCT", kind |-> "product", cell |-> "Apple"],
       [h |-> "Qty", kind |-> "quantity", cell |-> "3"],
       [h |-> "units", kind |-> "quantity", cell |-> "4"],
       [h |-> "Price (KSH)", kind |-> "money", cell |-> "10"],
       [h |-> "Unit Price", kind |-> "money", cell |-> "$7"],
       [h |-> "Total", kind |-> "money", cell |-> "$30"],
       [h |-> "Ksh Rate", kind |-> "other", cell |-> "130"] >>

\* the members of a set of numbers, ascending
RECURSIVE Ascending(_)
Ascending(S) ==
    IF S = {} THEN <<>>
    ELSE LET least == CHOOSE n \in S : \A o \in S : n <= o
         IN  <<least>> \o Ascending(S \ {least})

Reverse(seq) == [i \in 1..Len(seq) |-> seq[Len(seq) + 1 - i]]

\* spoil: "" for none, or the kind of column whose cell does not parse
HeaderFile(picks, spoil) ==
    File("sales.csv",
         [j \in 1..Len(picks) |-> Vocabulary[picks[j]].h],
         << [j \in 1..Len(picks) |->
                IF Vocabulary[picks[j]].kind # spoil THEN Vocabulary[picks[j]].cell
                ELSE IF spoil = "date" THEN "soon" ELSE "many"] >>)

HeaderFiles ==
    LET choices == {S \in SUBSET (1..Len(Vocabulary)) : Cardinality(S) <= MaxCols}
    IN  {HeaderFile(Ascending(S), spoil) : S \in choices, spoil \in {"", "date", "quantity"}}
        \cup {HeaderFile(Reverse(Ascending(S)), "") : S \in choices}

RowsUpTo(S, n) == UNION {[1..k -> S] : k \in 0..n}

MoneyFiles ==
    {File("money.csv", <<"Date", "Product", "Qty", "Price", "Total">>, rows) :
        rows \in RowsUpTo({<<"2024-01-05", "Widget", qp[1], qp[2], t>> :
                              qp \in {<<"2", "50">>, <<"5", "20">>, <<"5", "0">>},
                              t \in {"$100", "$0", "5", "-5"}}, MaxRows)}
    \cup {File("totals.csv", <<"Date", "Product", "Qty", "Total (KSH)">>, rows) :
        rows \in RowsUpTo({<<"2024-01-05", "Widget", q, t>> :
                              q \in {"2", "5"}, t \in {"$1,000", "TBD", "0"}}, MaxRows)}
    \cup {File("prices.csv", <<"Date", "Item", "Qty", "Price (USD)">>, rows) :
        rows \in RowsUpTo({<<"2024-01-05", "Widget", qp[1], qp[2]>> :
                              qp \in {<<"2", "$50">>, <<"5", "free">>, <<"", "20">>}}, MaxRows)}

GroupFiles ==
    {File("groups.csv", <<"Date", "Product", "Qty", "Price">>, rows) :
        rows \in RowsUpTo({<<d, p, "2", "10">> :
                              d \in {"2024-01-05", "2024-02-10", "", "soon"},
                              p \in {"Widget", "Apple", ""}}, MaxRows)}

WideProducts == <<"Anvil", "Bolt", "Clamp", "Drill", "File", "Gauge", "Hammer", "Jack", "Knife">>

\* one row a product, in the order given; the products of heavy sell 2, the others 1
WideFile(products, heavy) ==
    File("wide.csv", <<"Date", "Product", "Qty", "Price">>,
         [i \in 1..Len(products) |-> <<"2024-01-05", products[i], IF products[i] \in heavy THEN "2" ELSE "1", "10">>])

WideFiles ==
    LET names == {WideProducts[i] : i \in 1..Len(WideProducts)}
    IN  {WideFile(products, heavy) :
            products \in {WideProducts, Reverse(WideProducts)},
            heavy \in {S \in SUBSET names : Cardinality(S) <= MaxHeavy}}

IngestFiles == HeaderFiles \cup MoneyFiles \cup GroupFiles \cup WideFiles

InitIngest ==
    /\ users = <<[id |-> 1, username |-> "alice", password_hash |-> generate_password_hash("pw1")]>>
    /\ session = [c \in Clients |-> IF c = "c1" THEN [user_id |-> 1, username |-> "alice"] ELSE NoSession]
    /\ store = {}
    /\ clock = 0
    /\ inbox \in IngestFiles
    /\ resp = Response("init", "", 0, "")

NextIngest ==
    \/ store = {} /\ upload_file("c1", inbox)
    \/ \E draws \in BOOLEAN : dashboard("c1", 0, draws)
    \/ \E draws \in BOOLEAN : export_pdf("c1", draws)

SpecIngest == InitIngest /\ [][NextIngest]_vars

(***************************************************************************)
(* Properties of an ingestion run.  In a run of SpecIngest the store holds *)
(* at most one upload, and it was made from the file in inbox; the         *)
(* properties below read the file as the specification of the pipeline     *)
(* reads it and compare with what the store holds.                         *)
(***************************************************************************)

\* the headers of the file as the Header Normalizer names them
SourceHeaders == [j \in 1..Len(inbox.cols) |-> StandardName(Strip(inbox.cols[j]))]

\* the first column whose normalized header contains sub; 0 when there is none
SourceColumn(sub) ==
    IF \E j \in 1..Len(SourceHeaders) : Contains(sub, SourceHeaders[j])
    THEN CHOOSE j \in 1..Len(SourceHeaders) :
            /\ Contains(sub, SourceHeaders[j])
            /\ \A k \in 1..(j - 1) : ~Contains(sub, SourceHeaders[k])
    ELSE 0

\* a money cell of the file is valid when, without its $ and commas, it is a number
SourceMoneyValid(text) == text \notin NaStrings /\ IsNumberText(StripMoney(text))

SourceMoney(text) == IF SourceMoneyValid(text) THEN NumberValue(StripMoney(text)) ELSE 0

\* the parsed totals of the file, row by row (when it has a total-bearing column)
SourceTotals == [i \in 1..Len(inbox.rows) |-> SourceMoney(inbox.rows[i][SourceColumn("total")])]

RowPrice(row) == IF "price" \in DOMAIN row THEN row.price.n ELSE 0

IsRecomputed(u) == \A i \in 1..Len(u.data) : u.data[i].total = Num(u.data[i].quantity.n * RowPrice(u.data[i]))

KeepsSourceTotals(u) == \A i \in 1..Len(u.data) : u.data[i].total = Num(SourceTotals[i])

\* C1: every stored row's total is quantity * price (price 0 without a price-bearing
\* column) when the file has no total-bearing column or its parsed totals sum to 0,
\* and is the row's own parsed source total otherwise.
C1_TotalRecomputedIffAbsentOrZeroSum ==
    \A u \in store :
        IF SourceColumn("total") = 0 \/ SumSeq(SourceTotals) = 0
        THEN IsRecomputed(u)
        ELSE KeepsSourceTotals(u)

\* C1 happens: Scenario E (all-zero totals recomputed to 100, 100) is stored
C1_Witness_ZeroTotalsRecomputed ==
    \E u \in store :
        /\ SourceColumn("total") # 0
        /\ SourceTotals = <<0, 0>>
        /\ [i \in 1..Len(u.data) |-> u.data[i].total.n] = <<100, 100>>

\* C2: every stored total is populated, and a file whose total column holds at least
\* one valid non-zero total keeps its source totals (also when they sum to 0).
C2_UsableSourceTotalsAreKept ==
    \A u \in store :
        /\ \A i \in 1..Len(u.data) : "total" \in DOMAIN u.data[i] /\ u.data[i].total.k = "num"
        /\ (/\ SourceColumn("total") # 0
            /\ \E i \in 1..Len(inbox.rows) :
                  /\ SourceMoneyValid(inbox.rows[i][SourceColumn("total")])
                  /\ SourceTotals[i] # 0)
           => KeepsSourceTotals(u)

\* a required field is unmatched when no header, trimmed and lower-cased, is one of
\* its synonyms
Unmatched(field) == ~\E j \in 1..Len(inbox.cols) : Lower(Strip(inbox.cols[j])) \in possible_names[field]

UnmatchedFields == SelectSeq(required, Unmatched)

NamesPriceOrTotal ==
    \E j \in 1..Len(inbox.cols) :
        Contains("price", Lower(inbox.cols[j])) \/ Contains("total", Lower(inbox.cols[j]))

\* C3: the validator's gates are evaluated in order.  A file with an unmatched
\* required field is rejected naming exactly the unmatched fields, whatever else is
\* wrong with it; the missing-price-or-total rejection comes only when all three
\* fields matched, the invalid-date-or-quantity rejection only when both earlier
\* gates passed.
C3_ValidatorGatesInOrder ==
    resp.op = "upload" =>
        /\ UnmatchedFields # <<>> =>
              /\ resp.status = 400
              /\ resp.msg = "Missing required columns: " \o Join(UnmatchedFields, ", ")
        /\ resp.msg = "Missing price or total column" => UnmatchedFields = <<>>
        /\ resp.msg = "Invalid date or quantity format" => UnmatchedFields = <<>> /\ NamesPriceOrTotal

\* C3 happens: a file without a date header, without a price or total header and
\* with an unparseable quantity is rejected for the missing date only
C3_Witness_MissingFieldWinsOverLaterGates ==
    /\ resp.op = "upload"
    /\ resp.msg = "Missing required columns: date"
    /\ ~NamesPriceOrTotal
    /\ \E j \in 1..Len(inbox.cols) : inbox.rows[1][j] = "many"

\* C4: an upload request that ends in an error leaves the store as it was; a
\* successful one adds exactly one record, owned by the session's user.
C4_ErrorLeavesStoreUnchanged ==
    [][resp'.op = "upload" =>
            IF resp'.status = 200
            THEN \E u \in store' \ store :
                    /\ store' = store \cup {u}
                    /\ u.user_id = session[resp'.client].user_id
            ELSE store' = store]_vars

(***************************************************************************)
(* Properties of the application (Spec).                                   *)
(***************************************************************************)

\* C5: in every step, an upload in the store either stays in it exactly as it is
\* (owner, filename, currency, records) or is the one upload removed by a
\* delete_upload request of a session of its owner; a delete request of another
\* user or of a client that is not signed in leaves the store unchanged.
C5_UploadsImmutableUntilOwnerDeletes ==
    [][/\ \A u \in store :
            \/ u \in store'
            \/ /\ resp'.op = "delete_upload"
               /\ resp'.upload_id = u.id
               /\ session[resp'.client].user_id = u.user_id
               /\ store' = store \ {u}
       /\ \A u \in store, v \in store' : (v.id = u.id /\ v.upload_date = u.upload_date) => v = u
       /\ (/\ resp'.op = "delete_upload"
           /\ \/ session[resp'.client].user_id = 0
              \/ \E u \in store : u.id = resp'.upload_id /\ u.user_id # session[resp'.client].user_id)
          => store' = store]_vars

\* C5 happens: a signed-in user's delete of another user's upload was refused, and
\* the upload is still stored
C5_Witness_ForeignDeleteRefused ==
    /\ resp.op = "delete_upload"
    /\ resp.status = 403
    /\ session[resp.client].user_id # 0
    /\ \E u \in store : u.id = resp.upload_id /\ u.user_id # session[resp.client].user_id

(***************************************************************************)
(* Properties of the views, read from the dashboard's response.            *)
(***************************************************************************)

\* the dashboard showed the views of a stored upload
ShowsUpload == resp.op = "dashboard" /\ resp.status = 200 /\ resp.selected # 0

Selected == CHOOSE u \in store : u.id = resp.selected

\* an upload of plain sales: at least one row, and every row has a date, a product
\* and a positive total
PlainSales(u) ==
    /\ u.data # <<>>
    /\ \A i \in 1..Len(u.data) :
          u.data[i].date.k = "str" /\ u.data[i].product.k = "str" /\ u.data[i].total.n > 0

\* C6: for every persisted upload, generate_charts returns exactly the five views;
\* stated here for the uploads of plain sales, with or without a price column.
C6_FiveViewsForEveryUpload ==
    (ShowsUpload /\ PlainSales(Selected)) => DOMAIN resp.charts = ChartNames

ViewTotal(view) == SumSeq([g \in 1..Len(view) |-> view[g].value])

GrandTotal(u) == SumSeq([i \in 1..Len(u.data) |-> u.data[i].total.n])

\* C7: the views agree: revenue by product, summed over the products, equals the
\* monthly trend, summed over the months, and both equal the grand total of the
\* stored totals; stated here for the uploads whose rows all have a date and a
\* positive total, and of which some row has a product.
C7_ViewsAgreeOnRevenue ==
    (/\ ShowsUpload
     /\ DOMAIN resp.charts = ChartNames
     /\ \A i \in 1..Len(Selected.data) : Selected.data[i].date.k = "str" /\ Selected.data[i].total.n > 0
     /\ \E i \in 1..Len(Selected.data) : Selected.data[i].product.k = "str") =>
        /\ ViewTotal(resp.charts.revenue_distribution) = ViewTotal(resp.charts.sales_trend)
        /\ ViewTotal(resp.charts.sales_by_product) = GrandTotal(Selected)
        /\ ViewTotal(resp.charts.sales_trend) = GrandTotal(Selected)

\* C8: the stored currency is KSH exactly when some header of the file, as
\* uploaded, contains "ksh" in any letter case, and USD otherwise: it is read from
\* the headers alone, before they are normalized.
C8_CurrencyFromOriginalHeaders ==
    \A u \in store :
        u.currency = IF \E j \in 1..Len(inbox.cols) : Contains("ksh", Lower(inbox.cols[j])) THEN "KSH" ELSE "USD"

\* C8 happens: the only header with "ksh" is "Price (KSH)", which normalization
\* renames to "price", and the upload is stored in KSH
C8_Witness_KshFromAnnotatedPrice ==
    \E u \in store :
        /\ u.currency = "KSH"
        /\ \E j \in 1..Len(inbox.cols) : inbox.cols[j] = "Price (KSH)"
        /\ \A j \in 1..Len(inbox.cols) : inbox.cols[j] # "Price (KSH)" => ~Contains("ksh", Lower(inbox.cols[j]))

\* C9: every stored row's date is a calendar date written YYYY-MM-DD.
C9_StoredDatesAreCalendarDates ==
    \A u \in store :
        \A i \in 1..Len(u.data) : u.data[i].date.k = "str" /\ IsDateText(u.data[i].date.s)

ProductsOf(u) == {u.data[i].product : i \in {i \in 1..Len(u.data) : ~IsNull(u.data[i].product)}}

QuantityOf(u, p) == SumSeq([i \in 1..Len(u.data) |-> IF u.data[i].product = p THEN u.data[i].quantity.n ELSE 0])

FirstRowOf(u, p) == CHOOSE i \in 1..Len(u.data) : u.data[i].product = p /\ \A k \in 1..(i - 1) : u.data[k].product # p

\* product a ranks before product b: the larger quantity first, and of equal
\* quantities the name that sorts first (by_name) or the earlier first row
Before(u, a, b, by_name) ==
    \/ QuantityOf(u, a) > QuantityOf(u, b)
    \/ /\ QuantityOf(u, a) = QuantityOf(u, b)
       /\ IF by_name THEN KeyLess(a, b) ELSE FirstRowOf(u, a) < FirstRowOf(u, b)

\* view holds the TopN first products of u in the ranking, with their quantities
IsTopView(view, u, by_name) ==
    /\ Len(view) = IF Cardinality(ProductsOf(u)) < TopN THEN Cardinality(ProductsOf(u)) ELSE TopN
    /\ \A g \in 1..Len(view) : view[g].key \in ProductsOf(u) /\ view[g].value = QuantityOf(u, view[g].key)
    /\ \A g \in 1..Len(view), h \in 1..Len(view) : g < h => Before(u, view[g].key, view[h].key, by_name)
    /\ \A p \in ProductsOf(u) \ {view[g].key : g \in 1..Len(view)} :
          \A g \in 1..Len(view) : Before(u, view[g].key, p, by_name)

\* C10 (amended): the top-products view holds the 8 products of largest summed
\* quantity (all of them when there are fewer), largest first; of products with
\* equal sums the one whose name sorts first is ranked, and kept at the cut-off,
\* ahead of the other.
C10_TopProductsTiesByName ==
    (ShowsUpload /\ DOMAIN resp.charts = ChartNames) =>
        IsTopView(resp.charts.top_products_qty, Selected, TRUE)

\* C10 (as claimed): the top-products view holds the 8 products of largest summed
\* quantity, largest first; of products with equal sums the one whose first row comes
\* earlier is ranked, and kept at the cut-off, ahead of the other.  Stated here for
\* the uploads of plain sales.
C10_TopProductsTiesByFirstRow ==
    (ShowsUpload /\ DOMAIN resp.charts = ChartNames /\ PlainSales(Selected)) =>
        IsTopView(resp.charts.top_products_qty, Selected, FALSE)

\* C10 happens: nine products of equal quantity, the file listing them in reverse
\* order of name; the view keeps eight and starts with the first by name
C10_Witness_TieAtTheCutOff ==
    /\ ShowsUpload
    /\ DOMAIN resp.charts = ChartNames
    /\ Cardinality(ProductsOf(Selected)) = TopN + 1
    /\ Len(resp.charts.top_products_qty) = TopN
    /\ resp.charts.top_products_qty[1].value = resp.charts.top_products_qty[TopN].value
    /\ resp.charts.top_products_qty[1].key = Str("Anvil")
    /\ Selected.data[1].product = Str("Knife")

\* the weekday of a stored row; "" for a row without a date
WeekdayOf(row) == IF row.date.k = "str" THEN day_name(DateValue(row.date.s)) ELSE ""

RevenueOn(u, day) == SumSeq([i \in 1..Len(u.data) |-> IF WeekdayOf(u.data[i]) = day THEN u.data[i].total.n ELSE 0])

\* view is the weekday view of u: Monday to Sunday, each with the revenue of its rows
IsWeekdayView(view, u) ==
    /\ Len(view) = 7
    /\ [g \in 1..7 |-> view[g].key] =
          <<"Monday", "Tuesday", "Wednesday", "Thursday", "Friday", "Saturday", "Sunday">>
    /\ \A g \in 1..7 : view[g].value = RevenueOn(u, view[g].key)

\* C11: the weekday view of every non-empty upload has exactly seven entries, Monday
\* to Sunday, each the sum of the totals of the rows dated on that weekday, 0 for a
\* weekday without rows; stated here for the uploads of plain sales.
C11_WeekdayViewAlwaysSevenEntries ==
    (ShowsUpload /\ PlainSales(Selected)) =>
        /\ "weekday_sales" \in DOMAIN resp.charts
        /\ IsWeekdayView(resp.charts.weekday_sales, Selected)

\* Whenever generate_charts yields its views, the weekday view is the one described.
WeekdayViewRightWhenDrawn ==
    (ShowsUpload /\ DOMAIN resp.charts = ChartNames) => IsWeekdayView(resp.charts.weekday_sales, Selected)

\* a single-day upload whose weekday view was drawn
SingleDayWeekdayViewDrawn ==
    /\ ShowsUpload
    /\ DOMAIN resp.charts = ChartNames
    /\ Len(Selected.data) = 2
    /\ Selected.data[1].date = Selected.data[2].date
    /\ Selected.data[1].date.k = "str"

(***************************************************************************)
(* Ownership on the dashboard (Spec).  A dashboard request changes neither *)
(* the sessions nor the store, so in a state whose last response is the    *)
(* dashboard's, session and store are those the request saw.               *)
(***************************************************************************)

\* the uploads of the user of the client the response went to
OwnUploads == {u \in store : u.user_id = session[resp.client].user_id}

\* C12: the dashboard selects and renders only an upload of the session's user.
\* Without a session it redirects and shows nothing; the history lists that
\* user's uploads and no others; a request for an upload of another user shows the
\* requesting user's most recent upload instead.
C12_DashboardShowsOnlyOwnUploads ==
    resp.op = "dashboard" =>
        /\ session[resp.client].user_id = 0 =>
              resp.status = 302 /\ resp.selected = 0 /\ resp.uploads = <<>> /\ resp.charts = NoCharts
        /\ {resp.uploads[i].id : i \in 1..Len(resp.uploads)} \subseteq {u.id : u \in OwnUploads}
        /\ resp.selected # 0 =>
              /\ \E u \in OwnUploads :
                    /\ u.id = resp.selected
                    /\ resp.charts \in {generate_charts(u.data, u.currency, draws) : draws \in BOOLEAN}
              /\ {resp.uploads[i].id : i \in 1..Len(resp.uploads)} = {u.id : u \in OwnUploads}
        /\ (\E u \in store \ OwnUploads : u.id = resp.upload_id) =>
              \/ resp.selected = 0 /\ resp.charts = NoCharts /\ resp.uploads = <<>>
              \/ \E u \in OwnUploads :
                    /\ u.id = resp.selected
                    /\ \A o \in OwnUploads : o.upload_date <= u.upload_date

\* C12 happens: a signed-in user asked for another user's upload and was shown
\* their own latest one
C12_Witness_ForeignIdFallsBack ==
    /\ resp.op = "dashboard"
    /\ session[resp.client].user_id # 0
    /\ \E u \in store \ OwnUploads : u.id = resp.upload_id
    /\ \E u \in OwnUploads : u.id = resp.selected
    /\ resp.msg = "You do not have permission to view this upload."

====
